---------------------------- MODULE Spec2Model ----------------------------
(***************************************************************************)
(* Conversion routing and normalisation core of the ConverterBridge        *)
(* workbench: the format classifier, the backend adapters (Blender, ODA),  *)
(* the orchestrator UniversalConverter.convert / import_file, mesh         *)
(* promotion, and the two batch drivers.                                   *)
(*                                                                         *)
(* File paths are sequences of one-character strings, so that              *)
(* os.path.splitext, os.path.basename and str.lower are computed as the    *)
(* code computes them.                                                     *)
(***************************************************************************)
EXTENDS Naturals, Sequences, FiniteSets

(***************************************************************************)
(* Bounds of the model.                                                    *)
(***************************************************************************)
\* longest path the classifier specification enumerates
MaxPathLen == 5
\* largest number of files selected for one batch command
MaxBatch == 2

(***************************************************************************)
(* Strings.                                                                *)
(***************************************************************************)
UpperChars ==
    << "A","B","C","D","E","F","G","H","I","J","K","L","M",
       "N","O","P","Q","R","S","T","U","V","W","X","Y","Z" >>

LowerChars ==
    << "a","b","c","d","e","f","g","h","i","j","k","l","m",
       "n","o","p","q","r","s","t","u","v","w","x","y","z" >>

\* the lower-case letter of every capital, and the reverse
ToLower ==
    [c \in { UpperChars[i] : i \in 1..26 } |->
        LowerChars[CHOOSE i \in 1..26 : UpperChars[i] = c]]

ToUpper ==
    [c \in { LowerChars[i] : i \in 1..26 } |->
        UpperChars[CHOOSE i \in 1..26 : LowerChars[i] = c]]

\* str.lower() on one character
LowerChar(c) == IF c \in DOMAIN ToLower THEN ToLower[c] ELSE c

\* str.lower()
lower(s) == [i \in 1..Len(s) |-> LowerChar(s[i])]

\* str.upper() on one character (used to build case variants of an input)
UpperChar(c) == IF c \in DOMAIN ToUpper THEN ToUpper[c] ELSE c

upper(s) == [i \in 1..Len(s) |-> UpperChar(s[i])]

\* str.rfind(c), 1-based; 0 when c does not occur (Python's -1)
rfind(s, c) ==
    IF \E i \in 1..Len(s) : s[i] = c
    THEN CHOOSE i \in 1..Len(s) : s[i] = c /\ \A j \in (i+1)..Len(s) : s[j] # c
    ELSE 0

\* the path separator; the file dialogs hand out paths with forward slashes
Sep == "/"

\* os.path.splitext: the extension starts at the last dot of the last
\* component, unless that component consists of leading dots only up to it
splitroot(p) ==
    LET sepIndex == rfind(p, Sep)
        dotIndex == rfind(p, ".")
    IN  IF dotIndex > sepIndex
           /\ \E k \in (sepIndex+1)..(dotIndex-1) : p[k] # "."
        THEN SubSeq(p, 1, dotIndex - 1)
        ELSE p

splitext(p) ==
    LET sepIndex == rfind(p, Sep)
        dotIndex == rfind(p, ".")
    IN  IF dotIndex > sepIndex
           /\ \E k \in (sepIndex+1)..(dotIndex-1) : p[k] # "."
        THEN SubSeq(p, dotIndex, Len(p))
        ELSE << >>

\* os.path.basename
basename(p) == SubSeq(p, rfind(p, Sep) + 1, Len(p))

(***************************************************************************)
(* The static format table.                                                *)
(***************************************************************************)
FreecadExts ==
    { <<".","s","t","e","p">>, <<".","s","t","p">>, <<".","i","g","e","s">>,
      <<".","i","g","s">>, <<".","b","r","e","p">>, <<".","b","r","p">>,
      <<".","s","t","l">>, <<".","o","b","j">> }

BlenderExts ==
    { <<".","f","b","x">>, <<".","g","l","t","f">>, <<".","g","l","b">>,
      <<".","d","a","e">>, <<".","3","d","s">>, <<".","p","l","y">>,
      <<".","u","s","d">>, <<".","u","s","d","a">>, <<".","u","s","d","c">>,
      <<".","a","b","c">>, <<".","s","v","g">>, <<".","x","3","d">>,
      <<".","w","r","l">>, <<".","b","l","e","n","d">> }

OdaExts ==
    { <<".","d","w","g">>, <<".","d","x","f">> }

OnlineExts ==
    { <<".","x","_","t">>, <<".","x","_","b">>,
      <<".","x","m","t","_","t","x","t">>,
      <<".","x","m","t","_","b","i","n">>,
      <<".","c","a","t","p","a","r","t">>,
      <<".","c","a","t","p","r","o","d","u","c","t">>, <<".","p","r","t">>,
      <<".","a","s","m">>, <<".","s","l","d","p","r","t">>,
      <<".","s","l","d","a","s","m">>, <<".","i","p","t">>,
      <<".","i","a","m">>, <<".","j","t">>, <<".","s","a","t">>,
      <<".","s","a","b">> }

FORMAT_HANDLERS ==
    [e \in FreecadExts \cup BlenderExts \cup OdaExts \cup OnlineExts |->
        IF e \in FreecadExts THEN "freecad"
        ELSE IF e \in BlenderExts THEN "blender"
        ELSE IF e \in OdaExts THEN "oda"
        ELSE "online"]

\* a lookup whose default is the online handler
DictGet_DefaultOnline(d, key, default) ==
    IF key \in DOMAIN d THEN d[key] ELSE "online"

\* dict.get(key, default)
DictGet(d, key, default) == IF key \in DOMAIN d THEN d[key] ELSE default

HandlerTags == {"freecad", "blender", "oda", "online", "unknown"}

\* a classifier that forgets .lower()
get_handler_CaseSensitive(file_path) ==
    DictGet(FORMAT_HANDLERS, splitext(file_path), "unknown")

\* UniversalConverter.get_handler
get_handler(file_path) ==
    LET ext == lower(splitext(file_path))
    IN  DictGet(FORMAT_HANDLERS, ext, "unknown")

(***************************************************************************)
(* The environment: executables, input files, the scratch directory.       *)
(***************************************************************************)
BLENDER_PATH == "C:\\Program Files\\Blender Foundation\\Blender 4.4\\blender.exe"
ODA_CONVERTER_PATH == "C:\\Program Files\\ODA\\ODAFileConverter\\ODAFileConverter.exe"
ODA_X86_PATH == "C:\\Program Files (x86)\\ODA\\ODAFileConverter\\ODAFileConverter.exe"

ToolPaths == {BLENDER_PATH, ODA_CONVERTER_PATH, ODA_X86_PATH}

\* the directory the user's files live in, and tempfile.gettempdir()
WorkDir == <<"w">>
TempDir == <<"t","m","p">>

InDir(d, name) == d \o <<Sep>> \o name

part_stl == InDir(WorkDir, <<"p","a","r","t",".","s","t","l">>)
Gear_STEP == InDir(WorkDir, <<"G","e","a","r",".","S","T","E","P">>)
model_fbx == InDir(WorkDir, <<"m","o","d","e","l",".","f","b","x">>)
plan_dwg == InDir(WorkDir, <<"p","l","a","n",".","d","w","g">>)
plan_dxf == InDir(WorkDir, <<"p","l","a","n",".","d","x","f">>)
assembly_sldprt ==
    InDir(WorkDir, <<"a","s","s","e","m","b","l","y",".","s","l","d","p","r","t">>)
notes_txt == InDir(WorkDir, <<"n","o","t","e","s",".","t","x","t">>)
gone_stl == InDir(WorkDir, <<"g","o","n","e",".","s","t","l">>)

\* the files that exist in the user's directory
InputFiles ==
    { part_stl, Gear_STEP, model_fbx, plan_dwg, plan_dxf,
      assembly_sldprt, notes_txt }

\* the paths a file dialog may hand to a command (gone_stl was deleted
\* after it was selected)
RequestPaths == InputFiles \cup { gone_stl }

\* Python's None; a path is never empty, and both are falsy
None == << >>

\* the value of a call that ended by an uncaught exception
Raised == << "!" >>

DigitChars == << "0","1","2","3","4","5","6","7","8","9" >>

\* the outcomes of one external process: it exits with a status, having
\* written its output file or not; it outlives the timeout and is killed
\* (subprocess.TimeoutExpired); or it cannot be started (OSError)
ProcOutcomes ==
    [kind : {"exit"}, rc : {0, 1}, wrote : BOOLEAN]
    \cup [kind : {"timeout", "oserror"}, rc : {1}, wrote : {FALSE}]

\* no external process is running / one is
NoProc == "none"
Running == "running"

\* what the geometry kernel makes of a mesh file: Mesh.insert raises
\* (unreadable), adds no mesh object (no triangles), or adds a mesh that is
\* closed, open (Part.makeSolid raises on it) or one on which the kernel
\* raises while sewing (shape.sewShape)
MeshGeo == {"closed", "open", "sewfail"}
KernelOutcomes == {"raise", "nomesh"} \cup MeshGeo

VARIABLES
    installed,   \* the executables present on the filesystem
    oda_path,    \* ODAConverter.oda_path
    scratch,     \* the files present under the temporary directory
    userfiles,   \* the files a tool has written outside of it
    nTempDirs,   \* temporary directories created so far by tempfile.mkdtemp
    cmd,         \* the command being executed
    filenames,   \* the files selected for it
    idx,         \* position of its loop in filenames
    success,     \* its counter of successes
    failed,      \* its counter of failures
    pc,          \* where the command stands
    req,         \* input_file of the request in progress (or the last one)
    calls,       \* what that request has called so far, in order
    attempts,    \* the backend attempts of that request, with their results
    proc,        \* whether an external process is running
    out,         \* output path the running process was given
    ret,         \* what UniversalConverter.convert returned for the request
    console,     \* kinds of messages printed for the request
    manual,      \* the manual-conversion instructions printed for the request
    hasDoc,      \* FreeCAD.ActiveDocument is set
    doc,         \* doc.Objects
    results,     \* per file handled by the batch: the file, its result and
                 \* what the kernel made of its mesh ("na": none was read)
    cpath,       \* classifier specification: the path classified
    ctag,        \* classifier specification: the tag returned
    runs,        \* adapter specification: the convert calls made, in order
    fsize        \* adapter specification: size of each file of scratch

envVars == << installed, oda_path, scratch, userfiles, nTempDirs >>
cmdVars == << cmd, filenames, idx, success, failed, pc, results >>
reqVars == << req, calls, attempts, proc, out, ret, console, manual >>
docVars == << hasDoc, doc >>
clsVars == << cpath, ctag >>
adpVars == << runs, fsize >>
vars == << envVars, cmdVars, reqVars, docVars, clsVars, adpVars >>

\* the existence test of convert left out
os_path_exists_Always(p) == TRUE

os_path_exists(p) == p \in InputFiles \cup scratch \cup userfiles

(***************************************************************************)
(* Backend adapters.                                                       *)
(***************************************************************************)
\* Blender is asked for a format import_file has no branch for
stl_AsGlb == <<"g","l","b">>

stl == <<"s","t","l">>
dxf == <<"d","x","f">>

\* BlenderConverter.is_available
blender_is_available == BLENDER_PATH \in installed

\* a probe that answers without looking at the filesystem
oda_is_available_Blind(path) == [avail |-> TRUE, path |-> path]

\* ODAConverter.is_available: the result and the value it leaves in oda_path
oda_is_available(path) ==
    IF path \in installed
    THEN [avail |-> TRUE, path |-> path]
    ELSE IF ODA_CONVERTER_PATH \in installed
    THEN [avail |-> TRUE, path |-> ODA_CONVERTER_PATH]
    ELSE IF ODA_X86_PATH \in installed
    THEN [avail |-> TRUE, path |-> ODA_X86_PATH]
    ELSE [avail |-> FALSE, path |-> path]

\* BlenderConverter.convert: the output path
BlenderOutputFile(input_file, output_format) ==
    LET base_name == splitroot(basename(input_file))
    IN  InDir(TempDir,
              base_name \o <<"_","c","o","n","v","e","r","t","e","d",".">>
                        \o output_format)

\* subprocess.TimeoutExpired is not caught
BlenderResult_TimeoutEscapes(o, output_file, exists) ==
    IF o.kind = "exit"
    THEN IF o.rc = 0 /\ exists THEN output_file ELSE None
    ELSE IF o.kind = "timeout" THEN Raised ELSE None

\* BlenderConverter.convert: what it returns once subprocess.run is over
BlenderResult(o, output_file, exists) ==
    IF o.kind = "exit"
    THEN IF o.rc = 0 /\ exists THEN output_file ELSE None
    ELSE None

\* ODAConverter.convert: tempfile.mkdtemp(prefix='oda_convert_')
OdaOutputDir(n) ==
    InDir(TempDir,
          <<"o","d","a","_","c","o","n","v","e","r","t","_">> \o <<DigitChars[n + 1]>>)

\* ODAConverter.convert: the output path
OdaOutputFile(output_dir, input_file, output_format) ==
    LET base_name == splitroot(basename(input_file))
    IN  InDir(output_dir, base_name \o <<".">> \o lower(output_format))

\* ODAConverter.convert: what it returns once subprocess.run is over
OdaResult(o, output_file, exists) ==
    IF o.kind = "exit"
    THEN IF exists THEN output_file ELSE None
    ELSE None

\* instructions that name no service
show_manual_instructions_Empty(input_file) == { }

\* OnlineConverter.show_manual_instructions: the services the text names
show_manual_instructions(input_file) ==
    { [name |-> "CAD Exchanger Online", url |-> "https://cadexchanger.com/online/"],
      [name |-> "Onshape", url |-> "https://cad.onshape.com/"],
      [name |-> "CloudConvert", url |-> "https://cloudconvert.com/"] }

NoInstructions == { }

(***************************************************************************)
(* Mesh promotion and the import of a converted file.                      *)
(***************************************************************************)
BRepImportExts ==
    { <<".","s","t","e","p">>, <<".","s","t","p">>, <<".","i","g","e","s">>,
      <<".","i","g","s">>, <<".","b","r","e","p">>, <<".","b","r","p">> }

MeshImportExts ==
    { <<".","s","t","l">>, <<".","o","b","j">>, <<".","p","l","y">> }

MeshObj(g) == [type |-> "Mesh", geo |-> g, shape |-> "mesh", src |-> 0]
PartObj == [type |-> "Part", geo |-> "na", shape |-> "brep", src |-> 0]
DxfObj == [type |-> "Dxf", geo |-> "na", shape |-> "draft", src |-> 0]
\* tolerances are in thousandths of a millimetre: the default of
\* STLToSolidCommand.convert_mesh_to_solid, the literal of
\* UniversalConverter._convert_mesh_to_solid, and the range of the dialog's
\* spin box
DefaultTolerance == 100
PromotionTolerance == 100
SpinMin == 1
SpinMax == 10000

\* the Part::Feature made from mesh i: its shape, the tolerance given to
\* makeShapeFromMesh, whether sewShape was run on it, and what was printed
\* about Part.makeSolid
SolidObj(s, i, tolerance, sewn, report) ==
    [type |-> "PartFeature", geo |-> "na", shape |-> s, src |-> i,
     tol |-> tolerance, sewn |-> sewn, report |-> report]

\* STLToSolidCommand.convert_mesh_to_solid: the message of the inner
\* try/except around Part.makeSolid
STLReport(r) ==
    IF r = "solid" THEN "Successfully created solid"
    ELSE "Could not create solid, using shell instead"

\* UniversalConverter._convert_mesh_to_solid: the inner try/except prints
\* nothing; the message after the feature is made
UniversalReport(r) == "Converted to solid"

\* the Part::Refine the dialog makes from a result
RefineObj(i) == [type |-> "Refine", geo |-> "na", shape |-> "refined", src |-> i]

\* makeShapeFromMesh, sewShape (when asked for) and Part.makeSolid on one
\* mesh: "solid", "shell" (makeSolid raised and the shape is kept), or
\* "raise" (sewShape raised)
Promote(geo, sewing) ==
    IF sewing /\ geo = "sewfail" THEN "raise"
    ELSE IF sewing /\ geo = "closed" THEN "solid"
    ELSE "shell"

\* the index of the last Mesh::Feature of doc.Objects, 0 when there is none
LastMesh(objs) ==
    IF \E i \in 1..Len(objs) : objs[i].type = "Mesh"
    THEN CHOOSE i \in 1..Len(objs) :
            /\ objs[i].type = "Mesh"
            /\ \A j \in (i+1)..Len(objs) : objs[j].type # "Mesh"
    ELSE 0

\* UniversalConverter._convert_mesh_to_solid: the loop over doc.Objects,
\* from object i of the list taken when the loop started
RECURSIVE ConvertMeshesFrom(_, _, _)
ConvertMeshesFrom(snapshot, i, objs) ==
    IF i > Len(snapshot) THEN objs
    ELSE LET obj == snapshot[i]
             r == Promote(obj.geo, TRUE)
         IN  IF obj.type = "Mesh" /\ r # "raise"
             THEN ConvertMeshesFrom(snapshot, i + 1,
                       Append(objs, SolidObj(r, i, PromotionTolerance, TRUE,
                                            UniversalReport(r))))
             ELSE ConvertMeshesFrom(snapshot, i + 1, objs)

\* import_file with the promotion left out
_convert_mesh_to_solid_Skipped(objs) == objs

_convert_mesh_to_solid(objs) == ConvertMeshesFrom(objs, 1, objs)

\* UniversalConverter.import_file after convert() has returned a file: the
\* objects of the document afterwards and whether the document is returned
ImportConverted(converted_file, objs, k) ==
    LET ext == lower(splitext(converted_file))
    IN  IF ext \in BRepImportExts
        THEN IF k = "raise" THEN [ok |-> FALSE, doc |-> objs]
             ELSE [ok |-> TRUE, doc |-> Append(objs, PartObj)]
        ELSE IF ext \in MeshImportExts
        THEN IF k = "raise" THEN [ok |-> FALSE, doc |-> objs]
             ELSE IF k = "nomesh"
             THEN [ok |-> TRUE, doc |-> _convert_mesh_to_solid(objs)]
             ELSE [ok |-> TRUE,
                   doc |-> _convert_mesh_to_solid(Append(objs, MeshObj(k)))]
        ELSE IF ext = <<".","d","x","f">>
        THEN IF k = "raise" THEN [ok |-> FALSE, doc |-> objs]
             ELSE [ok |-> TRUE, doc |-> Append(objs, DxfObj)]
        ELSE [ok |-> FALSE, doc |-> objs]

(***************************************************************************)
(* The orchestrator: UniversalConverter.convert and import_file, driven by *)
(* BatchUniversalImportCommand.Activated.                                  *)
(***************************************************************************)
\* convert, handler 'blender': "if self.blender.is_available():"
UseBlender(available) == available

\* the ODA attempt made without looking at the probe
UseOda_Always(available) == TRUE

\* convert, handler 'oda': "if self.oda.is_available():"
UseOda(available) == available

\* the file of the ODA attempt is not returned at once
ReturnConverted_Never(converted) == FALSE

\* convert, handler 'oda': "if converted: return converted"
ReturnConverted(converted) == converted # None

\* a fallback to Blender that does not look at the extension
FallbackToBlender_AnyExt(ext) == TRUE

\* convert, handler 'oda': the first operand of
\* "if ext == '.dxf' and self.blender.is_available():"
FallbackToBlender(ext) == ext = <<".","d","x","f">>

\* a native file is handed back under another path
NativeReturn_Converted(input_file) ==
    InDir(TempDir, basename(input_file))

\* convert, handler 'freecad': "return input_file"
NativeReturn(input_file) == input_file

\* a failure is not counted
Count_DropFailure(ok, s, f) ==
    [success |-> IF ok THEN s + 1 ELSE s, failed |-> f]

\* the batch loops: "if result: success += 1 else: failed += 1"
Count(ok, s, f) ==
    [success |-> IF ok THEN s + 1 ELSE s, failed |-> IF ok THEN f ELSE f + 1]

Init ==
    /\ installed \in SUBSET ToolPaths
    /\ oda_path = ODA_CONVERTER_PATH
    /\ scratch = { }
    /\ userfiles = { }
    /\ nTempDirs = 0
    /\ cmd = "none"
    /\ filenames = << >>
    /\ idx = 0
    /\ success = 0
    /\ failed = 0
    /\ pc = "idle"
    /\ results = << >>
    /\ req = None
    /\ calls = << >>
    /\ attempts = << >>
    /\ proc = NoProc
    /\ out = None
    /\ ret = None
    /\ console = { }
    /\ manual = NoInstructions
    /\ hasDoc = FALSE
    /\ doc = << >>
    /\ cpath = << >>
    /\ ctag = "none"
    /\ runs = << >>
    /\ fsize = << >>

\* the batches a file dialog can hand to a batch command: 1..MaxBatch files
RECURSIVE SeqsUpTo(_, _)
SeqsUpTo(S, n) ==
    IF n = 0 THEN { << >> }
    ELSE LET shorter == SeqsUpTo(S, n - 1)
         IN  shorter \cup { Append(s, x) : s \in { t \in shorter : Len(t) = n - 1 }, x \in S }

Batches == { b \in SeqsUpTo(RequestPaths, MaxBatch) : Len(b) >= 1 }

\* UniversalConverter.__init__: the Blender driver script is written to the
\* temporary directory and _check_backends probes both tools
ScriptPath ==
    InDir(TempDir, <<"b","l","e","n","d","e","r","_","c","o","n","v","e","r","t",".","p","y">>)

\* BatchUniversalImportCommand.Activated, up to the loop
ActivateBatchUniversal(selected) ==
    /\ pc = "idle"
    /\ cmd' = "BatchUniversalImport"
    /\ filenames' = selected
    /\ idx' = 1
    /\ success' = 0
    /\ failed' = 0
    /\ results' = << >>
    /\ pc' = "loop"
    /\ scratch' = scratch \cup { ScriptPath }
    /\ oda_path' = oda_is_available(oda_path).path
    /\ UNCHANGED << installed, userfiles, nTempDirs, reqVars, docVars, clsVars, adpVars >>

\* import_file once convert() is over: the import of the converted file and
\* the batch loop's counting; an exception out of convert() ends the command
FinishImport(input_file, converted, k) ==
    /\ ret' = converted
    /\ proc' = NoProc
    /\ out' = None
    /\ UNCHANGED << cmd, filenames >>
    /\ IF converted = Raised
       THEN /\ pc' = "crashed"
            /\ UNCHANGED << idx, success, failed, results, docVars >>
       ELSE LET r == IF converted = None
                     THEN [ok |-> FALSE, doc |-> doc]
                     ELSE ImportConverted(converted, doc, k)
                c == Count(r.ok, success, failed)
            IN  /\ hasDoc' = (hasDoc \/ converted # None)
                /\ doc' = r.doc
                /\ success' = c.success
                /\ failed' = c.failed
                /\ results' = Append(results,
                       [file |-> input_file, ok |-> r.ok,
                        kernel |-> IF converted # None
                                      /\ lower(splitext(converted)) \in MeshImportExts
                                   THEN k ELSE "na"])
                /\ idx' = idx + 1
                /\ pc' = "loop"

\* a process that is started and not waited for: the caller goes on
subprocess_run_NoWait(waiting) == "loop"

\* subprocess.run blocks: the command stays in the adapter that called it
\* until the process is over or killed at the timeout
subprocess_run(waiting) == waiting

\* BlenderConverter.convert up to subprocess.run: the process is started and
\* the command waits for it
LaunchBlender(input_file, before) ==
    /\ calls' = before \o <<"blender.convert", "blender.is_available", "blender.run">>
    /\ out' = BlenderOutputFile(input_file, stl)
    /\ proc' = Running
    /\ pc' = subprocess_run("blender_run")
    /\ ret' = None
    /\ UNCHANGED << cmd, filenames, idx, success, failed, results, docVars >>

\* ODAConverter.convert up to subprocess.run
LaunchOda(input_file, before) ==
    /\ calls' = before \o <<"oda.convert", "oda.is_available", "oda.run">>
    /\ nTempDirs' = nTempDirs + 1
    /\ out' = OdaOutputFile(OdaOutputDir(nTempDirs), input_file, dxf)
    /\ proc' = Running
    /\ pc' = subprocess_run("oda_run")
    /\ ret' = None
    /\ UNCHANGED << cmd, filenames, idx, success, failed, results, docVars >>

\* convert, handler 'oda', after the ODA attempt: the fallback to Blender for
\* .dxf, or the warning and None
OdaFallback(input_file, before, con, k) ==
    LET ext == lower(splitext(input_file))
        warned == con \cup {"ODA/Blender conversion failed or unavailable"}
    IN  IF FallbackToBlender(ext)
        THEN IF blender_is_available
             THEN /\ LaunchBlender(input_file, Append(before, "blender.is_available"))
                  /\ console' = con
             ELSE /\ calls' = Append(before, "blender.is_available")
                  /\ console' = warned
                  /\ FinishImport(input_file, None, k)
        ELSE /\ calls' = before
             /\ console' = warned
             /\ FinishImport(input_file, None, k)

\* one turn of the loop of BatchUniversalImportCommand.Activated:
\* import_file(filename), as far as a result or the start of a process
ImportNext ==
    /\ pc = "loop"
    /\ cmd = "BatchUniversalImport"
    /\ idx <= Len(filenames)
    /\ LET input_file == filenames[idx]
           ext == lower(splitext(input_file))
           handler == get_handler(input_file)
           oda == oda_is_available(oda_path)
       IN  /\ req' = input_file
           /\ attempts' = << >>
           /\ UNCHANGED << installed, userfiles, scratch, clsVars, adpVars >>
           /\ \E k \in KernelOutcomes :
                IF ~ os_path_exists(input_file)
                THEN /\ calls' = << >>
                     /\ console' = {"File not found"}
                     /\ manual' = NoInstructions
                     /\ UNCHANGED << oda_path, nTempDirs >>
                     /\ FinishImport(input_file, None, k)
                ELSE IF handler = "freecad"
                THEN /\ calls' = << >>
                     /\ console' = {"Direct FreeCAD import"}
                     /\ manual' = NoInstructions
                     /\ UNCHANGED << oda_path, nTempDirs >>
                     /\ FinishImport(input_file, NativeReturn(input_file), k)
                ELSE IF handler = "blender"
                THEN /\ manual' = NoInstructions
                     /\ UNCHANGED << oda_path, nTempDirs >>
                     /\ IF UseBlender(blender_is_available)
                        THEN /\ LaunchBlender(input_file, <<"blender.is_available">>)
                             /\ console' = { }
                        ELSE /\ calls' = <<"blender.is_available">>
                             /\ console' = {"Blender conversion failed or unavailable"}
                             /\ FinishImport(input_file, None, k)
                ELSE IF handler = "oda"
                THEN /\ manual' = NoInstructions
                     /\ oda_path' = oda.path
                     /\ IF UseOda(oda.avail)
                        THEN /\ LaunchOda(input_file, <<"oda.is_available">>)
                             /\ console' = { }
                        ELSE /\ UNCHANGED nTempDirs
                             /\ OdaFallback(input_file, <<"oda.is_available">>, { }, k)
                ELSE IF handler = "online"
                THEN /\ calls' = <<"online.show_manual_instructions">>
                     /\ manual' = show_manual_instructions(input_file)
                     /\ console' = {"instructions"}
                     /\ UNCHANGED << oda_path, nTempDirs >>
                     /\ FinishImport(input_file, None, k)
                ELSE /\ calls' = << >>
                     /\ console' = {"Unknown format"}
                     /\ manual' = NoInstructions
                     /\ UNCHANGED << oda_path, nTempDirs >>
                     /\ FinishImport(input_file, None, k)

\* the Blender process is over with outcome o (or was killed at the timeout):
\* BlenderConverter.convert returns, then convert and import_file go on
BlenderProc(o) ==
    /\ pc = "blender_run"
    /\ LET after == IF o.wrote THEN scratch \cup {out} ELSE scratch
           exists == out \in InputFiles \cup after
           converted == BlenderResult(o, out, exists)
           primary == get_handler(req) = "blender"
       IN  /\ scratch' = after
           /\ attempts' = Append(attempts,
                  [backend |-> "blender", proc |-> o, out |-> out,
                   exists |-> exists, result |-> converted])
           /\ calls' = Append(calls, IF converted \in {None, Raised}
                                     THEN "blender.convert:None"
                                     ELSE "blender.convert:file")
           /\ console' = console
                \cup (IF o.kind = "timeout" THEN {"Blender conversion timed out"}
                      ELSE IF o.kind = "oserror" THEN {"Blender conversion failed"}
                      ELSE IF converted = None THEN {"Blender error"} ELSE { })
                \cup (IF primary /\ converted = None
                      THEN {"Blender conversion failed or unavailable"} ELSE { })
           /\ \E k \in KernelOutcomes : FinishImport(req, converted, k)
           /\ UNCHANGED << installed, userfiles, oda_path, nTempDirs, req, manual, clsVars, adpVars >>

\* the ODA process is over with outcome o: ODAConverter.convert returns, then convert goes
\* on: it returns the file, or falls back
OdaProc(o) ==
    /\ pc = "oda_run"
    /\ LET after == IF o.wrote THEN scratch \cup {out} ELSE scratch
           exists == out \in InputFiles \cup after
           converted == OdaResult(o, out, exists)
           called == Append(calls, IF converted \in {None, Raised}
                                   THEN "oda.convert:None"
                                   ELSE "oda.convert:file")
           con == console
                \cup (IF o.kind # "exit" THEN {"ODA conversion failed"}
                      ELSE IF converted = None
                      THEN {"ODA conversion produced no output"} ELSE { })
       IN  /\ scratch' = after
           /\ attempts' = Append(attempts,
                  [backend |-> "oda", proc |-> o, out |-> out,
                   exists |-> exists, result |-> converted])
           /\ UNCHANGED << installed, userfiles, oda_path, nTempDirs, req, manual, clsVars, adpVars >>
           /\ \E k \in KernelOutcomes :
                IF ReturnConverted(converted)
                THEN /\ calls' = called
                     /\ console' = con
                     /\ FinishImport(req, converted, k)
                ELSE OdaFallback(req, called, con, k)

\* the loop of a batch command is over: the summary is printed
BatchDone ==
    /\ pc = "loop"
    /\ idx > Len(filenames)
    /\ pc' = "done"
    /\ UNCHANGED << envVars, cmd, filenames, idx, success, failed, results,
                    reqVars, docVars, clsVars, adpVars >>

(***************************************************************************)
(* STLToSolidCommand.convert_mesh_to_solid, driven by                      *)
(* BatchConvertCommand.Activated.                                          *)
(***************************************************************************)
\* Mesh.insert raises on a file that is missing or is no mesh file
MeshInsertOutcomes(filename) ==
    IF os_path_exists(filename) /\ lower(splitext(filename)) \in MeshImportExts
    THEN KernelOutcomes
    ELSE {"raise"}

\* STLToSolidCommand.convert_mesh_to_solid: the objects of the document
\* afterwards and whether a Part feature is returned
convert_mesh_to_solid(objs, k, tolerance, sewing) ==
    IF k = "raise" THEN [ok |-> FALSE, doc |-> objs]
    ELSE LET inserted == IF k = "nomesh" THEN objs ELSE Append(objs, MeshObj(k))
             mesh_obj == LastMesh(inserted)
         IN  IF mesh_obj = 0 THEN [ok |-> FALSE, doc |-> inserted]
             ELSE LET r == Promote(inserted[mesh_obj].geo, sewing)
                  IN  IF r = "raise" THEN [ok |-> FALSE, doc |-> inserted]
                      ELSE [ok |-> TRUE,
                            doc |-> Append(inserted,
                                      SolidObj(r, mesh_obj, tolerance, sewing,
                                               STLReport(r)))]

\* BatchConvertCommand.Activated, up to the loop
ActivateBatchConvert(selected) ==
    /\ pc = "idle"
    /\ cmd' = "BatchConvert"
    /\ filenames' = selected
    /\ idx' = 1
    /\ success' = 0
    /\ failed' = 0
    /\ results' = << >>
    /\ pc' = "loop"
    /\ UNCHANGED << envVars, reqVars, docVars, clsVars, adpVars >>

\* one turn of the loop of BatchConvertCommand.Activated
ConvertNext ==
    /\ pc = "loop"
    /\ cmd = "BatchConvert"
    /\ idx <= Len(filenames)
    /\ LET filename == filenames[idx]
       IN  \E k \in MeshInsertOutcomes(filename) :
             LET r == convert_mesh_to_solid(doc, k, DefaultTolerance, TRUE)
                 c == Count(r.ok, success, failed)
             IN  /\ req' = filename
                 /\ hasDoc' = TRUE
                 /\ doc' = r.doc
                 /\ success' = c.success
                 /\ failed' = c.failed
                 /\ results' = Append(results,
                        [file |-> filename, ok |-> r.ok, kernel |-> k])
                 /\ idx' = idx + 1
                 /\ UNCHANGED << envVars, cmd, filenames, pc, calls, attempts,
                                 proc, out, ret, console, manual, clsVars, adpVars >>

\* the values the dialog's controls can hold when Convert is pressed
DialogTolerances == { SpinMin, DefaultTolerance, SpinMax }
RefineOutcomes == { "unchecked", "refined", "raise" }

\* STLConversionDialog.do_convert: the Convert button of the advanced dialog
do_convert(filename, tolerance, sewing, refine) ==
    /\ pc = "idle"
    /\ cmd' = "STLConversionDialog"
    /\ pc' = "done"
    /\ req' = filename
    /\ IF ~ os_path_exists(filename)
       THEN UNCHANGED docVars
       ELSE \E k \in MeshInsertOutcomes(filename) :
              LET r == convert_mesh_to_solid(doc, k, tolerance, sewing)
              IN  /\ hasDoc' = TRUE
                  /\ doc' = IF r.ok /\ refine = "refined"
                            THEN Append(r.doc, RefineObj(Len(r.doc)))
                            ELSE r.doc
    /\ UNCHANGED << envVars, filenames, idx, success, failed, results, calls,
                    attempts, proc, out, ret, console, manual, clsVars, adpVars >>

\* a command is started from the menu, with the files its dialog returned
Activate ==
    /\ pc = "idle"
    /\ \/ \E selected \in Batches :
            \/ ActivateBatchUniversal(selected)
            \/ ActivateBatchConvert(selected)
       \/ \E filename \in RequestPaths, tolerance \in DialogTolerances,
             sewing \in BOOLEAN, refine \in RefineOutcomes :
            do_convert(filename, tolerance, sewing, refine)

Next ==
    \/ Activate
    \/ ImportNext
    \/ \E o \in ProcOutcomes : BlenderProc(o)
    \/ \E o \in ProcOutcomes : OdaProc(o)
    \/ ConvertNext
    \/ BatchDone

Spec == Init /\ [][Next]_vars

\* a started command runs on: subprocess.run returns or raises at the timeout
\* at the latest, and the loops are synchronous
Step ==
    \/ ImportNext
    \/ \E o \in ProcOutcomes : BlenderProc(o)
    \/ \E o \in ProcOutcomes : OdaProc(o)
    \/ ConvertNext
    \/ BatchDone

FairSpec == Spec /\ WF_vars(Step)

(***************************************************************************)
(* ParasolidConvertCommand.Activated: convert_parasolid_file and the       *)
(* import of its result.                                                   *)
(***************************************************************************)
CAD_EXCHANGER_PATH == "C:\\Program Files\\CAD Exchanger\\ExchangerConv.exe"
CAD_EXCHANGER_X86_PATH == "C:\\Program Files (x86)\\CAD Exchanger\\ExchangerConv.exe"

cad_exchanger_paths == << CAD_EXCHANGER_PATH, CAD_EXCHANGER_X86_PATH >>

bracket_x_t == InDir(WorkDir, <<"b","r","a","c","k","e","t",".","x","_","t">>)
Bracket_X_T == InDir(WorkDir, <<"B","r","a","c","k","e","t",".","X","_","T">>)
body_x_b == InDir(WorkDir, <<"b","o","d","y",".","x","_","b">>)

\* the files the command's dialog can return (they are in ParasolidFiles)
ParasolidPaths == { bracket_x_t, Bracket_X_T, body_x_b }

\* str.replace(old, new), old not empty
RECURSIVE replace(_, _, _)
replace(s, old, new) ==
    IF Len(s) < Len(old) THEN s
    ELSE IF SubSeq(s, 1, Len(old)) = old
    THEN new \o replace(SubSeq(s, Len(old) + 1, Len(s)), old, new)
    ELSE << s[1] >> \o replace(Tail(s), old, new)

\* convert_via_external_tool: "self.input_file.replace('.x_t', '.step')"
ExternalOutputFile(input_file) ==
    replace(input_file, <<".","x","_","t">>, <<".","s","t","e","p">>)

\* convert_via_external_tool: what one turn of its loop returns once
\* subprocess.run is over ("none" when the loop goes on)
ExternalResult(o, output_file, exists) ==
    IF o.kind = "exit" /\ exists THEN output_file ELSE None

\* the value Part.read returns: a shape, which is not a path
Shape == << "<", "S", "h", "a", "p", "e", ">" >>

\* get_conversion_instructions: what the text names, by source application
get_conversion_instructions(source) ==
    IF source \in {"Onshape", "SolidWorks"}
    THEN { [name |-> source, url |-> ""] }
    ELSE { [name |-> "CAD Exchanger Online", url |-> "https://cadexchanger.com/online/"],
           [name |-> "CAD Exchanger", url |-> "https://cadexchanger.com/"] }

SourceApplications == { "Onshape", "SolidWorks", "Unknown" }

\* the first path of cad_exchanger_paths from position i on that exists,
\* 0 when there is none
NextCadExchanger(i) ==
    IF \E j \in i..Len(cad_exchanger_paths) : cad_exchanger_paths[j] \in installed
    THEN CHOOSE j \in i..Len(cad_exchanger_paths) :
            /\ cad_exchanger_paths[j] \in installed
            /\ \A h \in i..(j - 1) : cad_exchanger_paths[h] \notin installed
    ELSE 0

\* ParasolidConvertCommand.Activated once convert_parasolid_file has
\* returned: "if result and os.path.exists(result)" and Part.insert
ParasolidImport(result) ==
    /\ ret' = result
    /\ proc' = NoProc
    /\ out' = None
    /\ IF result = None
       THEN /\ pc' = "done"
            /\ UNCHANGED docVars
       ELSE IF result = Shape
       THEN /\ pc' = "crashed"
            /\ UNCHANGED docVars
       ELSE \E k \in {"raise", "inserted"} :
              IF k = "raise"
              THEN /\ pc' = "crashed"
                   /\ hasDoc' = TRUE
                   /\ UNCHANGED doc
              ELSE /\ pc' = "done"
                   /\ hasDoc' = TRUE
                   /\ doc' = Append(doc, PartObj)

\* convert_parasolid_file from position i of the loop of
\* convert_via_external_tool: the next tool found is started, or, with none
\* left, Part.read is tried and then the instructions are printed
ParasolidFrom(input_file, i, called) ==
    LET j == NextCadExchanger(i)
    IN  IF j # 0
        THEN /\ idx' = j
             /\ calls' = Append(called, "cadexchanger.run")
             /\ out' = ExternalOutputFile(input_file)
             /\ proc' = Running
             /\ pc' = "cadex_run"
             /\ ret' = None
             /\ UNCHANGED << manual, docVars >>
        ELSE /\ idx' = Len(cad_exchanger_paths) + 1
             /\ \E occ \in {"raise", "shape"} :
                  IF occ = "shape"
                  THEN /\ calls' = called \o <<"external:None", "occ:shape">>
                       /\ UNCHANGED manual
                       /\ ParasolidImport(Shape)
                  ELSE /\ calls' = called \o <<"external:None", "occ:None", "instructions">>
                       /\ \E source \in SourceApplications :
                            manual' = get_conversion_instructions(source)
                       /\ ParasolidImport(None)

\* ParasolidConvertCommand.Activated, as far as a result or the start of a
\* process
ActivateParasolid(filename) ==
    /\ pc = "idle"
    /\ cmd' = "ParasolidConvert"
    /\ req' = filename
    /\ ParasolidFrom(filename, 1, << >>)
    /\ UNCHANGED << envVars, filenames, success, failed, results, attempts,
                    console, clsVars, adpVars >>

\* the CAD Exchanger process is over with outcome o
CadExchangerProc(o) ==
    /\ pc = "cadex_run"
    /\ LET inTemp == SubSeq(out, 1, Len(TempDir) + 1) = TempDir \o <<Sep>>
           wrote == IF o.wrote THEN { out } ELSE { }
           exists == out \in InputFiles \cup ParasolidPaths \cup scratch
                             \cup userfiles \cup wrote
           converted == ExternalResult(o, out, exists)
       IN  /\ scratch' = IF inTemp THEN scratch \cup wrote ELSE scratch
           /\ userfiles' = IF inTemp THEN userfiles ELSE userfiles \cup wrote
           /\ attempts' = Append(attempts,
                  [backend |-> "cadexchanger", proc |-> o, out |-> out,
                   exists |-> exists, result |-> converted])
           /\ IF converted # None
              THEN /\ calls' = Append(calls, "external:file")
                   /\ UNCHANGED << idx, manual >>
                   /\ ParasolidImport(converted)
              ELSE ParasolidFrom(req, idx + 1, calls)
           /\ UNCHANGED << installed, oda_path, nTempDirs, cmd, filenames,
                           success, failed, results, req, console, clsVars, adpVars >>

ParasolidInit ==
    /\ installed \in SUBSET { CAD_EXCHANGER_PATH, CAD_EXCHANGER_X86_PATH }
    /\ oda_path = ODA_CONVERTER_PATH
    /\ scratch = { }
    /\ userfiles = { }
    /\ nTempDirs = 0
    /\ cmd = "none"
    /\ filenames = << >>
    /\ idx = 0
    /\ success = 0
    /\ failed = 0
    /\ pc = "idle"
    /\ results = << >>
    /\ req = None
    /\ calls = << >>
    /\ attempts = << >>
    /\ proc = NoProc
    /\ out = None
    /\ ret = None
    /\ console = { }
    /\ manual = NoInstructions
    /\ hasDoc = FALSE
    /\ doc = << >>
    /\ cpath = << >>
    /\ ctag = "none"
    /\ runs = << >>
    /\ fsize = << >>

ParasolidActivate ==
    /\ pc = "idle"
    /\ \E filename \in ParasolidPaths : ActivateParasolid(filename)

ParasolidNext ==
    \/ ParasolidActivate
    \/ \E o \in ProcOutcomes : CadExchangerProc(o)

ParasolidSpec == ParasolidInit /\ [][ParasolidNext]_vars

(***************************************************************************)
(* The classifier on its own, over every path of up to MaxPathLen          *)
(* characters of a small alphabet and a file of every extension of the     *)
(* table.                                                                  *)
(***************************************************************************)
ClassifyAlphabet == { ".", "/", "j", "t", "T", "a" }

\* a file named after every extension of the table, as written there and in
\* capitals
TablePaths ==
    { InDir(WorkDir, <<"a">> \o e) : e \in DOMAIN FORMAT_HANDLERS }
    \cup { InDir(WorkDir, <<"a">> \o upper(e)) : e \in DOMAIN FORMAT_HANDLERS }

ClassifyPaths == SeqsUpTo(ClassifyAlphabet, MaxPathLen) \cup TablePaths

\* one call of get_handler
Classify(file_path) ==
    /\ ctag = "none"
    /\ cpath' = file_path
    /\ ctag' = get_handler(file_path)
    /\ UNCHANGED << envVars, cmdVars, reqVars, docVars, adpVars >>

ClassifyNext ==
    /\ ctag = "none"
    /\ \E file_path \in ClassifyPaths : Classify(file_path)

ClassifySpec == Init /\ [][ClassifyNext]_vars

(***************************************************************************)
(* The two adapters on their own: BlenderConverter.convert and             *)
(* ODAConverter.convert called directly, with the size of what the tool    *)
(* writes and the time it takes.                                           *)
(***************************************************************************)
MaxRuns == 2

BLENDER_TIMEOUT == 300
ODA_TIMEOUT == 120

OtherDir == <<"v">>
a_dxf == <<"a",".","d","x","f">>

\* two files of the same name in two directories
AdapterInputs == { InDir(WorkDir, a_dxf), InDir(OtherDir, a_dxf) }

\* what the tool would do if left alone: ProcOutcomes without the timeout,
\* with the number of bytes of the file it writes
SizedOutcomes ==
    [kind : {"exit"}, rc : {0, 1}, wrote : {TRUE}, bytes : {0, 1}]
    \cup [kind : {"exit"}, rc : {0, 1}, wrote : {FALSE}, bytes : {0}]
    \cup [kind : {"oserror"}, rc : {1}, wrote : {FALSE}, bytes : {0}]

\* seconds the tool would need if left alone
Durations == { 1, ODA_TIMEOUT + 1, BLENDER_TIMEOUT + 1 }

\* no timeout is passed to subprocess.run
ProcessTimeout_Unbounded(backend) == BLENDER_TIMEOUT + ODA_TIMEOUT + 1

\* the timeout argument of the adapter's subprocess.run
ProcessTimeout(backend) ==
    IF backend = "blender" THEN BLENDER_TIMEOUT ELSE ODA_TIMEOUT

\* subprocess.run(cmd, timeout=t): the child is killed and TimeoutExpired
\* raised once t seconds have passed
TimedRun(natural, elapsed, timeout) ==
    IF elapsed > timeout
    THEN [kind |-> "timeout", rc |-> 1, wrote |-> FALSE, bytes |-> 0]
    ELSE natural

\* seconds subprocess.run(cmd, timeout=t) blocks
Waited(elapsed, timeout) == IF elapsed > timeout THEN timeout ELSE elapsed

\* one call of an adapter's convert
AdapterConvert(backend, input_file, natural, elapsed) ==
    /\ Len(runs) < MaxRuns
    /\ LET probe == oda_is_available(oda_path)
           avail == IF backend = "blender" THEN blender_is_available
                                            ELSE probe.avail
           output_file ==
               IF backend = "blender"
               THEN BlenderOutputFile(input_file, stl)
               ELSE OdaOutputFile(OdaOutputDir(nTempDirs), input_file, dxf)
           timeout == ProcessTimeout(backend)
           o == TimedRun(natural, elapsed, timeout)
           after == IF o.wrote THEN scratch \cup {output_file} ELSE scratch
           sizes == IF o.wrote
                    THEN [p \in after |-> IF p = output_file THEN o.bytes
                                                             ELSE fsize[p]]
                    ELSE fsize
           exists == output_file \in InputFiles \cup after \cup userfiles
           result == IF backend = "blender"
                     THEN BlenderResult(o, output_file, exists)
                     ELSE OdaResult(o, output_file, exists)
       IN  /\ oda_path' = IF backend = "oda" THEN probe.path ELSE oda_path
           /\ IF avail
              THEN /\ scratch' = after
                   /\ fsize' = sizes
                   /\ nTempDirs' = IF backend = "oda" THEN nTempDirs + 1
                                                     ELSE nTempDirs
                   /\ runs' = Append(runs,
                          [backend |-> backend, input |-> input_file,
                           launched |-> TRUE, proc |-> o,
                           waited |-> Waited(elapsed, timeout),
                           out |-> output_file, exists |-> exists,
                           size |-> IF output_file \in after
                                    THEN sizes[output_file] ELSE 0,
                           result |-> result])
              ELSE /\ UNCHANGED << scratch, fsize, nTempDirs >>
                   /\ runs' = Append(runs,
                          [backend |-> backend, input |-> input_file,
                           launched |-> FALSE,
                           proc |-> [kind |-> "none", rc |-> 0,
                                     wrote |-> FALSE, bytes |-> 0],
                           waited |-> 0, out |-> None, exists |-> FALSE,
                           size |-> 0, result |-> None])
    /\ UNCHANGED << installed, userfiles, cmdVars, reqVars, docVars, clsVars >>

AdapterNext ==
    /\ Len(runs) < MaxRuns
    /\ \E backend \in {"blender", "oda"}, input_file \in AdapterInputs,
          natural \in SizedOutcomes, elapsed \in Durations :
           AdapterConvert(backend, input_file, natural, elapsed)

AdapterSpec == Init /\ [][AdapterNext]_vars

(***************************************************************************)
(* STLToSolidCommand.convert_mesh_to_solid called directly, with any       *)
(* tolerance a caller can pass.                                            *)
(***************************************************************************)
\* tolerances a caller can pass, in thousandths of a millimetre: none,
\* those the dialog allows, and one above its range
CallTolerances == { 0, SpinMin, DefaultTolerance, SpinMax, SpinMax + 1 }

\* one call of STLToSolidCommand.convert_mesh_to_solid
CallConvertMeshToSolid(filename, tolerance, sewing) ==
    /\ pc = "idle"
    /\ cmd' = "STLToSolid"
    /\ pc' = "done"
    /\ req' = filename
    /\ \E k \in MeshInsertOutcomes(filename) :
         LET r == convert_mesh_to_solid(doc, k, tolerance, sewing)
         IN  /\ hasDoc' = TRUE
             /\ doc' = r.doc
             /\ results' = Append(results,
                    [file |-> filename, ok |-> r.ok, kernel |-> k])
    /\ UNCHANGED << envVars, filenames, idx, success, failed, calls,
                    attempts, proc, out, ret, console, manual, clsVars, adpVars >>

PromotionNext ==
    /\ pc = "idle"
    /\ \E filename \in RequestPaths, tolerance \in CallTolerances,
          sewing \in BOOLEAN :
           CallConvertMeshToSolid(filename, tolerance, sewing)

PromotionSpec == Init /\ [][PromotionNext]_vars

(***************************************************************************)
(* What convert can return for a file that exists, and the branch of       *)
(* import_file that takes it.                                              *)
(***************************************************************************)
\* UniversalConverter.convert: every value one of its return statements can
\* yield for input_file, whatever is installed and whatever the tools do
ConvertResults(input_file) ==
    LET ext == lower(splitext(input_file))
        handler == get_handler(input_file)
    IN  IF handler = "freecad" THEN { NativeReturn(input_file) }
        ELSE IF handler = "blender"
        THEN { None, BlenderOutputFile(input_file, stl) }
        ELSE IF handler = "oda"
        THEN { None }
             \cup { OdaOutputFile(OdaOutputDir(n), input_file, dxf) :
                      n \in 0 .. MaxBatch }
             \cup ( IF FallbackToBlender(ext)
                    THEN { BlenderOutputFile(input_file, stl) } ELSE { } )
        ELSE { None }

\* UniversalConverter.import_file: the branch taken for converted_file
ImportBranch(converted_file) ==
    LET ext == lower(splitext(converted_file))
    IN  IF ext \in BRepImportExts THEN "Part.insert"
        ELSE IF ext \in MeshImportExts THEN "Mesh.insert"
        ELSE IF ext = <<".","d","x","f">> THEN "importDXF.insert"
        ELSE "Direct import not implemented"

(***************************************************************************)
(* Vocabulary of the properties.                                           *)
(***************************************************************************)
\* a request of the universal importer has been started
Requested == cmd = "BatchUniversalImport" /\ req # None

\* ... and is over
RequestOver == Requested /\ pc \in {"loop", "done"}

\* the request is for an existing file with this handler
RoutedTo(handler) == Requested /\ os_path_exists(req) /\ get_handler(req) = handler

Called(what) == \E i \in 1..Len(calls) : calls[i] = what

IsDxf(p) == lower(splitext(p)) = <<".","d","x","f">>

(***************************************************************************)
(* C1  Fallback correctness.  When the probe of the primary backend of a   *)
(* request is false, convert() of that backend is not invoked and its      *)
(* process is not started; for a .dxf request whose primary backend (ODA)  *)
(* is unavailable the secondary candidate, Blender, is probed, and its     *)
(* convert() is invoked when it is available.                              *)
(***************************************************************************)
C1_FallbackCorrect ==
    /\ RoutedTo("blender") /\ ~ blender_is_available
        => ~ Called("blender.convert") /\ ~ Called("blender.run")
    /\ RoutedTo("oda") /\ ~ oda_is_available(oda_path).avail
        => /\ ~ Called("oda.convert") /\ ~ Called("oda.run")
           /\ IsDxf(req) => /\ Called("blender.is_available")
                            /\ blender_is_available => Called("blender.convert")

C1_Witness ==
    /\ RoutedTo("oda") /\ IsDxf(req)
    /\ ~ oda_is_available(oda_path).avail
    /\ Called("blender.convert")
    /\ ~ Called("oda.convert")

(***************************************************************************)
(* C2  (as claimed) A request for an external tool that is left with no    *)
(* candidate backend ends with manual-conversion instructions.             *)
(***************************************************************************)
C2_ExhaustedIsManual ==
    (RequestOver /\ (RoutedTo("blender") \/ RoutedTo("oda")) /\ ret = None)
        => manual # NoInstructions

(***************************************************************************)
(* C3  (as claimed) An adapter's attempt yields a file only if its process *)
(* exited with status zero and the expected output file exists.            *)
(***************************************************************************)
C3_SuccessNeedsBoth ==
    \A i \in 1..Len(attempts) :
        attempts[i].result # None
            => /\ attempts[i].proc.kind = "exit"
               /\ attempts[i].proc.rc = 0
               /\ attempts[i].exists

(***************************************************************************)
(* C4  Exactly one backend wins.  Once convert() of a backend has returned *)
(* a file, nothing more is called for the request: no other backend is     *)
(* probed or invoked, no process is running, and that file is what         *)
(* UniversalConverter.convert returns.                                     *)
(***************************************************************************)
C4_FirstFileWins ==
    Requested =>
        \A i \in 1..Len(calls) :
            calls[i] \in {"oda.convert:file", "blender.convert:file"}
                => /\ i = Len(calls)
                   /\ pc \in {"loop", "done"}
                   /\ proc = NoProc
                   /\ attempts # << >>
                   /\ ret = attempts[Len(attempts)].result
                   /\ \A j \in 1..(Len(attempts) - 1) : attempts[j].result = None

C4_Witness ==
    /\ RoutedTo("oda") /\ IsDxf(req)
    /\ blender_is_available
    /\ Called("oda.convert:file")
    /\ ret # None


(***************************************************************************)
(* C5  Timeout enforcement.  An attempt whose process outlives its timeout *)
(* ends as a failure of that backend only: the adapter returns None, no    *)
(* exception leaves it and the command is not ended by one; after an ODA   *)
(* timeout on a .dxf file with Blender available Blender is attempted,     *)
(* otherwise the request is over with no file.  No request hangs: a        *)
(* running process always leads to the end of its request, and a started   *)
(* command to its summary.                                                 *)
(***************************************************************************)
TimedOut(i) == attempts[i].proc.kind = "timeout"

C5_TimeoutIsFailure ==
    /\ pc # "crashed"
    /\ \A i \in 1..Len(attempts) :
         TimedOut(i) =>
            /\ attempts[i].result = None
            /\ IF attempts[i].backend = "oda" /\ IsDxf(req) /\ blender_is_available
               THEN /\ Called("blender.convert")
                    /\ \/ pc = "blender_run"
                       \/ Len(attempts) = 2 /\ attempts[2].backend = "blender"
               ELSE /\ i = Len(attempts)
                    /\ RequestOver
                    /\ ret = None

\* C5: a timed-out attempt is a failure of its backend only, and no request
\* or command hangs
C5_TimeoutEnforced ==
    /\ [] C5_TimeoutIsFailure
    /\ (pc \in {"blender_run", "oda_run"}) ~> RequestOver
    /\ (pc = "loop") ~> (pc = "done")

C5_Witness ==
    /\ Len(attempts) = 2
    /\ TimedOut(1)
    /\ attempts[1].backend = "oda"
    /\ attempts[2].backend = "blender"
    /\ attempts[2].result # None
    /\ RequestOver

(***************************************************************************)
(* C6  (as claimed) Mesh promotion never fails for geometry that does not  *)
(* close: once a command is at rest, every mesh that was read into the     *)
(* document and is not a closed volume has a Part feature made from it     *)
(* whose shape is the shell.                                               *)
(***************************************************************************)
C6_NonClosingIsShell ==
    pc \in {"loop", "done"} =>
        \A i \in 1..Len(doc) :
            (doc[i].type = "Mesh" /\ doc[i].geo # "closed")
                => \E j \in 1..Len(doc) :
                      /\ doc[j].type = "PartFeature"
                      /\ doc[j].src = i
                      /\ doc[j].shape = "shell"

(***************************************************************************)
(* C7  Batch processing.  A batch command handles the selected files one   *)
(* by one in the order given, each exactly once; no file ends the loop     *)
(* early; success + failed is the number of files handled, failed is the   *)
(* number of them that gave no result, and at the summary every one of the *)
(* N files has been handled.                                               *)
(***************************************************************************)
C7_BatchCounts ==
    cmd \in {"BatchUniversalImport", "BatchConvert"} =>
        /\ pc # "crashed"
        /\ Len(results) = idx - 1
        /\ Len(results) <= Len(filenames)
        /\ \A i \in 1..Len(results) : results[i].file = filenames[i]
        /\ success + failed = Len(results)
        /\ failed = Cardinality({ i \in 1..Len(results) : ~ results[i].ok })
        /\ pc = "done" => Len(results) = Len(filenames)

C7_Witness ==
    /\ pc = "done"
    /\ Len(filenames) = 2
    /\ ~ results[1].ok
    /\ results[2].ok
    /\ success = 1
    /\ failed = 1

(***************************************************************************)
(* C8  The classifier is pure and total.  For every path get_handler       *)
(* returns one of the five tags; the tag is a function of the path alone   *)
(* (the same in every environment); the path written in capitals or in     *)
(* small letters gets the same tag; an extension of the table gets the tag *)
(* of its row and any other extension gets 'unknown'.                      *)
(***************************************************************************)
C8_ClassifierTotal ==
    ctag # "none" =>
        /\ ctag \in HandlerTags
        /\ ctag = get_handler(cpath)
        /\ ctag = get_handler(upper(cpath))
        /\ ctag = get_handler(lower(cpath))
        /\ LET ext == lower(splitext(cpath))
           IN  IF ext \in FreecadExts THEN ctag = "freecad"
               ELSE IF ext \in BlenderExts THEN ctag = "blender"
               ELSE IF ext \in OdaExts THEN ctag = "oda"
               ELSE IF ext \in OnlineExts THEN ctag = "online"
               ELSE ctag = "unknown"

C8_Witness ==
    /\ cpath = <<"a", ".", "j", "T">>
    /\ ctag = "online"

(***************************************************************************)
(* C9  A native file is returned as it is.  The turn of the loop that      *)
(* takes an existing file whose extension classifies as 'freecad' returns  *)
(* exactly the input path from convert, probes and invokes no backend,     *)
(* starts no process and leaves the temporary directory as it was.         *)
(***************************************************************************)
NativeRequestNext ==
    /\ pc = "loop"
    /\ cmd = "BatchUniversalImport"
    /\ idx <= Len(filenames)
    /\ os_path_exists(filenames[idx])
    /\ get_handler(filenames[idx]) = "freecad"

\* C9: the step that takes a native file returns the input path and touches
\* no backend and no temporary file
C9_NativeIsDirect ==
    [][ NativeRequestNext =>
            /\ req' = filenames[idx]
            /\ ret' = filenames[idx]
            /\ calls' = << >>
            /\ attempts' = << >>
            /\ proc' = NoProc
            /\ scratch' = scratch
            /\ nTempDirs' = nTempDirs
            /\ manual' = NoInstructions
            /\ pc' = "loop" ]_vars

C9_Witness ==
    /\ Requested
    /\ req = Gear_STEP
    /\ ret = Gear_STEP
    /\ calls = << >>
    /\ ScriptPath \in scratch

(***************************************************************************)
(* C10  A file for the online services ends in manual instructions.  For   *)
(* an existing file whose extension classifies as 'online' the request is  *)
(* over at once with no file and with instructions that name at least one  *)
(* converter service and its URL; the instructions are the only thing      *)
(* called: no backend is probed, no conversion attempted, nothing retried. *)
(***************************************************************************)
C10_OnlineIsManual ==
    RoutedTo("online") =>
        /\ RequestOver
        /\ ret = None
        /\ \E s \in manual : s.name # "" /\ s.url # ""
        /\ calls = << "online.show_manual_instructions" >>
        /\ attempts = << >>
        /\ proc = NoProc
        /\ results[Len(results)].file = req
        /\ ~ results[Len(results)].ok

C10_Witness ==
    /\ req = assembly_sldprt
    /\ RequestOver
    /\ manual # NoInstructions
    /\ ret = None

(***************************************************************************)
(* C11  A file of an unknown format fails as unsupported.  For an existing *)
(* file whose extension is in no row of the table the request is over at   *)
(* once with no file and the error 'Unknown format'; nothing is called: no *)
(* backend is probed or invoked and no manual instructions are produced.   *)
(***************************************************************************)
UnknownExt(p) == lower(splitext(p)) \notin DOMAIN FORMAT_HANDLERS

C11_UnknownIsUnsupported ==
    (Requested /\ os_path_exists(req) /\ UnknownExt(req)) =>
        /\ RequestOver
        /\ ret = None
        /\ console = {"Unknown format"}
        /\ calls = << >>
        /\ attempts = << >>
        /\ proc = NoProc
        /\ manual = NoInstructions
        /\ results[Len(results)].file = req
        /\ ~ results[Len(results)].ok

C11_Witness ==
    /\ Requested
    /\ req = notes_txt
    /\ ret = None
    /\ "Unknown format" \in console
    /\ failed = 1

(***************************************************************************)
(* C12  The fallback from ODA to Blender is for .dxf only.  A request for  *)
(* a drawing that is not a .dxf file (.dwg) never has Blender's convert    *)
(* invoked nor its process started; a .dxf request with ODA unavailable    *)
(* and Blender available has Blender's convert invoked.                    *)
(***************************************************************************)
C12_FallbackOnlyForDxf ==
    RoutedTo("oda") =>
        /\ ~ IsDxf(req)
            => /\ ~ Called("blender.convert")
               /\ ~ Called("blender.run")
               /\ \A i \in 1..Len(attempts) : attempts[i].backend = "oda"
        /\ (IsDxf(req) /\ ~ oda_is_available(oda_path).avail /\ blender_is_available)
            => /\ Called("blender.convert")
               /\ ~ Called("oda.run")

C12_Witness ==
    /\ RoutedTo("oda")
    /\ req = plan_dwg
    /\ ~ oda_is_available(oda_path).avail
    /\ blender_is_available
    /\ RequestOver
    /\ ret = None
    /\ ~ Called("blender.convert")

(***************************************************************************)
(* C13  (as claimed) Sewing is unconditional: every Part feature that a    *)
(* mesh promotion has added to the document was made from a shape on which *)
(* sewShape had been run before Part.makeSolid was tried.                  *)
(***************************************************************************)
C13_AlwaysSewn ==
    \A j \in 1..Len(doc) : doc[j].type = "PartFeature" => doc[j].sewn

(***************************************************************************)
(* C14  (as claimed) Scratch outputs are idempotent: running the same      *)
(* request again writes to the same scratch path, so the temporary         *)
(* directories created and the output files present under the temporary    *)
(* directory are never more than the distinct files requested so far.      *)
(***************************************************************************)
RequestedFiles == { results[i].file : i \in 1..Len(results) } \cup { req }

ScratchOutputs == scratch \ { ScriptPath }

C14_ScratchIdempotent ==
    Requested =>
        /\ nTempDirs <= Cardinality(RequestedFiles)
        /\ Cardinality(ScratchOutputs) <= Cardinality(RequestedFiles)

(***************************************************************************)
(* C15  (as claimed) No adapter mutates its input: the output path given   *)
(* to an external tool differs from the input path and lies under the      *)
(* temporary directory, and no tool writes a file anywhere else.           *)
(***************************************************************************)
InTempDir(p) ==
    /\ Len(p) > Len(TempDir)
    /\ SubSeq(p, 1, Len(TempDir) + 1) = TempDir \o <<Sep>>

C15_InputNotMutated ==
    /\ proc = Running => (out # req /\ InTempDir(out))
    /\ \A i \in 1..Len(attempts) :
         attempts[i].out # req /\ InTempDir(attempts[i].out)
    /\ userfiles = { }

(***************************************************************************)
(* C16  (as claimed) Only an unreadable mesh file or one without triangles *)
(* makes mesh promotion fail: a file whose mesh was handed to the kernel   *)
(* gives no result exactly when Mesh.insert raised or added no mesh        *)
(* object.                                                                 *)
(***************************************************************************)
C16_OnlyInputFailuresFail ==
    \A i \in 1..Len(results) :
        results[i].kernel # "na"
            => (~ results[i].ok <=> results[i].kernel \in {"raise", "nomesh"})

(***************************************************************************)
(* C17  (as claimed) A degraded promotion is reported: a Part feature      *)
(* whose shape is the shell left by a failed Part.makeSolid is in the      *)
(* document, its file counts as a success, and what was printed for it     *)
(* differs from what is printed for a feature that is a solid.             *)
(***************************************************************************)
C17_ShellIsReported ==
    \A j \in 1..Len(doc) :
        (doc[j].type = "PartFeature" /\ doc[j].shape = "shell") =>
            \A h \in 1..Len(doc) :
                (doc[h].type = "PartFeature" /\ doc[h].shape = "solid")
                    => doc[h].report # doc[j].report

(***************************************************************************)
(* C18  A mesh result is imported and promoted.  In the universal importer *)
(* every file whose resulting file is a mesh file read by the kernel is    *)
(* reported as a success, its mesh is in the document, and once the        *)
(* request is over every mesh of the document that is a closed volume has  *)
(* a Part feature that is a solid; every promotion was made with tolerance *)
(* 0.1 and with sewing.  This holds for a direct mesh file and for the     *)
(* output of a backend alike.                                              *)
(***************************************************************************)
MeshesRead == { i \in 1..Len(results) : results[i].kernel \in MeshGeo }

MeshObjects == { j \in 1..Len(doc) : doc[j].type = "Mesh" }

Probes(what) == { i \in 1..Len(calls) : calls[i] = what }

C19_ProbedAtMostOnce ==
    /\ Cardinality(Probes("blender.is_available")) <= 1
    /\ Cardinality(Probes("oda.is_available")) <= 1

(***************************************************************************)
(* C20  Batch execution is sequential.  A process is running exactly while *)
(* the command waits in an adapter's convert; it belongs to the file at    *)
(* the position of the loop, and every earlier file has its result.  The   *)
(* loop moves to the next file only with no process running, and a process *)
(* is started only when none is running or when the one that was running   *)
(* is over (the attempt of the same request is recorded in the same step). *)
(***************************************************************************)
InAdapter == pc \in {"blender_run", "oda_run"}

C20_OneAtATime ==
    /\ (proc = Running) <=> InAdapter
    /\ InAdapter =>
         /\ cmd = "BatchUniversalImport"
         /\ idx <= Len(filenames)
         /\ req = filenames[idx]
         /\ Len(results) = idx - 1

\* C20: one request and one process at a time; the next file waits for the
\* previous one and its process
C20_Sequential ==
    /\ [] C20_OneAtATime
    /\ [][ /\ idx' # idx => (proc' = NoProc /\ pc' = "loop")
           /\ (pc = "loop" /\ pc' \in {"blender_run", "oda_run"})
                => (proc = NoProc /\ attempts' = << >> /\ req' = filenames[idx])
           /\ (proc = Running /\ proc' = Running)
                => /\ req' = req
                   /\ idx' = idx
                   /\ Len(attempts') = Len(attempts) + 1 ]_vars

C20_Witness ==
    /\ pc = "blender_run"
    /\ proc = Running
    /\ Len(filenames) = 2
    /\ idx = 2
    /\ Len(results) = 1
    /\ Len(attempts) = 1

(***************************************************************************)
(* C21: two adapter calls for different source files never resolve to the  *)
(* same scratch output path, also when the two files have the same base    *)
(* name in different directories.  The Blender adapter refutes it: its     *)
(* output path is the base name inside the shared temporary directory.     *)
(***************************************************************************)
C21_NoScratchCollision ==
    \A i \in DOMAIN runs : \A j \in DOMAIN runs :
        ( /\ runs[i].launched
          /\ runs[j].launched
          /\ runs[i].input # runs[j].input )
        => runs[i].out # runs[j].out

(***************************************************************************)
(* C22: a path an adapter returns as the result of a conversion refers to  *)
(* a file of nonzero size; a zero-byte output is not accepted.  The code   *)
(* tests os.path.exists alone, so an empty output file is returned.        *)
(***************************************************************************)
C22_ResultIsNonEmpty ==
    \A i \in DOMAIN runs :
        runs[i].result # None => runs[i].exists /\ runs[i].size > 0

(***************************************************************************)
(* C23: every external process an adapter launches is given a finite       *)
(* timeout, 300 seconds for Blender and 120 seconds for the ODA converter: *)
(* convert never waits longer than that, and a process that outlives it is *)
(* killed and the attempt is a failure.                                    *)
(***************************************************************************)
C23_TimeoutsAreFinite ==
    \A i \in DOMAIN runs :
        LET limit == IF runs[i].backend = "blender" THEN 300 ELSE 120
        IN  runs[i].launched =>
                /\ runs[i].waited <= limit
                /\ runs[i].proc.kind = "timeout" =>
                       /\ runs[i].waited = limit
                       /\ ~runs[i].proc.wrote
                       /\ runs[i].result = None

\* Blender was killed after 300 seconds and the ODA converter after 120,
\* and a Blender run of 121 seconds was left to finish
C23_Witness ==
    /\ \E i \in DOMAIN runs :
           /\ runs[i].backend = "blender" /\ runs[i].proc.kind = "timeout"
           /\ runs[i].waited = 300 /\ runs[i].result = None
    /\ \E j \in DOMAIN runs :
           /\ runs[j].backend = "oda" /\ runs[j].proc.kind = "timeout"
           /\ runs[j].waited = 120 /\ runs[j].result = None


(***************************************************************************)
(* C24: the stitching tolerance of a promotion is validated to lie in      *)
(* (0, 10] millimetres: a call of convert_mesh_to_solid with a tolerance   *)
(* outside that range never reaches the build-surface step, so no Part     *)
(* feature is built with such a tolerance.  The function validates         *)
(* nothing: only the dialog's spin box is limited.                         *)
(***************************************************************************)
C24_ToleranceValidated ==
    \A i \in DOMAIN doc :
        doc[i].type = "PartFeature" => doc[i].tol > 0 /\ doc[i].tol <= 10000

(***************************************************************************)
(* C25: a successful result of BlenderConverter.convert refers to a file   *)
(* written by the current invocation: when Blender exits 0 without writing *)
(* its output the attempt fails, even if a file of that name is left from  *)
(* an earlier conversion.  The code tests os.path.exists alone, so the     *)
(* stale file is returned.                                                 *)
(***************************************************************************)
C25_ResultIsFresh ==
    \A i \in DOMAIN attempts :
        ( /\ attempts[i].backend = "blender"
          /\ attempts[i].result # None )
        => attempts[i].proc.wrote

(***************************************************************************)
(* C26: across the import_file calls of a batch into one document each     *)
(* imported mesh is promoted exactly once: no mesh object is the source of *)
(* two Part features, so the features never outnumber the meshes read.     *)
(* _convert_mesh_to_solid walks every mesh of the document at each call,   *)
(* so an earlier mesh is promoted again.                                   *)
(***************************************************************************)
C26_PromotedOnce ==
    cmd = "BatchUniversalImport" =>
        \A i \in DOMAIN doc :
            doc[i].type = "Mesh" =>
                Cardinality({ j \in DOMAIN doc :
                                doc[j].type = "PartFeature" /\ doc[j].src = i }) <= 1

(***************************************************************************)
(* C27: for a file whose extension is an entry of FORMAT_HANDLERS, every   *)
(* path convert can return has an extension import_file has a branch for:  *)
(* the 'Direct import not implemented' branch is never taken.              *)
(***************************************************************************)
C27_ResultIsImportable ==
    ( /\ ctag # "none"
      /\ lower(splitext(cpath)) \in DOMAIN FORMAT_HANDLERS )
    => \A r \in ConvertResults(cpath) :
           r # None => ImportBranch(r) # "Direct import not implemented"

\* a .dxf file, in capitals: the ODA output is read as DXF and the Blender
\* fallback's output as a mesh
C27_Witness ==
    /\ ctag = "oda"
    /\ splitext(cpath) = <<".","D","X","F">>
    /\ { ImportBranch(r) : r \in ConvertResults(cpath) \ {None} }
           = { "importDXF.insert", "Mesh.insert" }

(***************************************************************************)
(* C28: when the input file of a request does not exist, convert returns   *)
(* no result without classifying the file, probing or invoking a backend,  *)
(* or producing instructions, and import_file returns no result without    *)
(* creating a document or adding an object.                                *)
(***************************************************************************)
C28_MissingInputStopsEarly ==
    [][ ( /\ pc = "loop"
          /\ cmd = "BatchUniversalImport"
          /\ idx <= Len(filenames)
          /\ filenames[idx] \notin InputFiles \cup scratch \cup userfiles )
        => ( /\ req' = filenames[idx]
             /\ ret' = None
             /\ calls' = << >>
             /\ attempts' = << >>
             /\ proc' = NoProc
             /\ manual' = NoInstructions
             /\ console' = {"File not found"}
             /\ hasDoc' = hasDoc
             /\ doc' = doc
             /\ pc' = "loop"
             /\ idx' = idx + 1
             /\ results'[Len(results')].ok = FALSE ) ]_vars

\* the request for the missing file is over, after one for a file that was
\* imported into the document
C28_Witness ==
    /\ cmd = "BatchUniversalImport"
    /\ req = gone_stl
    /\ ~ os_path_exists(req)
    /\ ret = None
    /\ console = {"File not found"}
    /\ Len(results) = 2
    /\ results[1].ok
    /\ ~ results[2].ok
    /\ hasDoc
    /\ doc # << >>

(***************************************************************************)
(* C29: ODAConverter.is_available only looks at the filesystem.  When it   *)
(* answers True the oda_path it leaves exists; it changes oda_path only to *)
(* one of the two well-known locations, and only to one that exists; when  *)
(* it answers False oda_path is unchanged.  The probes a command makes at  *)
(* its start launch no process and create no directory.                    *)
(***************************************************************************)
C29_ProbeOnlyLooks ==
    /\ cmd = "BatchUniversalImport" =>
         \A p \in ToolPaths :
           LET r == oda_is_available(p)
           IN  /\ r.avail => r.path \in installed
               /\ r.path # p =>
                      /\ p \notin installed
                      /\ r.path \in {ODA_CONVERTER_PATH, ODA_X86_PATH}
                      /\ r.path \in installed
               /\ ~ r.avail => r.path = p
    /\ oda_path # ODA_CONVERTER_PATH =>
           oda_path = ODA_X86_PATH /\ oda_path \in installed
    /\ ( cmd = "BatchUniversalImport" /\ pc = "loop" /\ idx = 1 ) =>
           proc = NoProc /\ attempts = << >> /\ nTempDirs = 0

\* the probe at the start of a command found the converter at the second
\* well-known location only and has moved oda_path there
C29_Witness ==
    /\ cmd = "BatchUniversalImport"
    /\ pc = "loop"
    /\ idx = 1
    /\ ODA_CONVERTER_PATH \notin installed
    /\ oda_path = ODA_X86_PATH
    /\ oda_is_available(oda_path).avail
    /\ proc = NoProc

(***************************************************************************)
(* C30: convert_parasolid_file returns the path of an existing converted   *)
(* file or None, never another kind of value.  Its second method,          *)
(* convert_via_freecad_occ, returns the shape Part.read made, and that     *)
(* shape is returned as the result.                                        *)
(***************************************************************************)
C30_PathOrNone ==
    ( cmd = "ParasolidConvert" /\ pc \in {"done", "crashed"} ) =>
        \/ ret = None
        \/ /\ ret # Shape
           /\ ret \in InputFiles \cup ParasolidPaths \cup scratch \cup userfiles
=============================================================================
